---- MODULE Spec2Model ----
(***************************************************************************)
(* Daddy remote logging SDK, src/core/dd_detector.cpp.                     *)
(*                                                                         *)
(* The log file is a ring of LOG_PAGE_COUNT pages of LOG_PAGE_SIZE bytes.  *)
(* The writer process appends framed units to the page it has mapped and   *)
(* republishes the 8-byte PageHeader; the reader process maps the same     *)
(* file read-only and walks the units below the published packing count.   *)
(*                                                                         *)
(* The file is modelled byte by byte.  The ring is scaled: LOG_PAGE_SIZE   *)
(* is PageUnits 4-byte units and LOG_PAGE_COUNT is RingPages pages; the    *)
(* header layouts, the 16-bit packing counts and the unsigned arithmetic   *)
(* keep their widths.  The file starts zero-filled (open O_TRUNC, lseek,   *)
(* write of one byte).  A store of the 8-byte PageHeader and a store of    *)
(* the 4-byte UnitHeader are taken as one step each.                       *)
(***************************************************************************)
EXTENDS Integers, Sequences, FiniteSets, TLC

\* ------------------------------------------------------------------ bounds
PageUnits  == 8      \* 4-byte units per page (the source has 16384)
RingPages  == 2      \* pages in the ring (the source has 80)
NumThreads == 2      \* writer threads of the multi-threaded specification
MaxRecords == 3      \* emissions per run
MaxReads   == 3      \* readOnce calls per run
MaxClock   == 2      \* last value of the clock
MaxGuards  == 2      \* scope guards per run
CodecRecords == 1    \* encoder calls per run of the codec specification
LongLen    == 262141 \* length of the long string of the codec specification
ScopeRecords == 5    \* records per run of the scope specification
WrapRecords == 4     \* emissions per run of the ring-wrap specification
CycleRecords == 4    \* emissions per run of the ring-cycle specification

\* ------------------------------------------------------- program constants
LOG_UNIT_PACKING  == 4
sizeof_PageHeader == 8
sizeof_UnitHeader == 4
sizeof_uint16     == 2
UINT16_RANGE      == 65536

LOG_PAGE_SIZE  == LOG_UNIT_PACKING * PageUnits
LOG_PAGE_COUNT == RingPages

\* ASCII codes of the PageHeader sentinels
CodeSharp     == 35   \* '#'
ActBusy       == 43   \* '+'
ActClosed     == 45   \* '-'
ActTerminal   == 47   \* '/'

\* dDetector::FuncID
ScopeBeginST == 1
ScopeEndST   == 2
StampST      == 3
TraceST      == 4
ValidST      == 5
SetValueSS   == 6
SetValueST   == 7
AddValueST   == 8

Threads == 1 .. NumThreads
Pages   == 0 .. (LOG_PAGE_COUNT - 1)
NoBuffer == -1

VARIABLES
    mode,       \* which specification runs: "main", "mt", "codec", "scope",
                \*   "wrap", "cycle"
    file,       \* the log file: page -> its 4-byte units -> their bytes
    wstate,     \* writer process: "none" (no file yet), "alive", "closed", "crashed"
    w,          \* LogPageWriterP fields
    mutex,      \* LogPageWriterP::mMutex: holder thread, 0 when free
    pc,         \* per writer thread: position inside its emission
    op,         \* per writer thread: the encoder call in progress
    ptr,        \* per writer thread: PayloadPtr, as an offset from mBuffer
    rstate,     \* reader process: "none", "open", "nofile", "crashed"
    r,          \* LogPageReaderP fields
    clock,      \* the value DetectorWriterP::now() returns next
    emitted,    \* history: encoder calls in mutex-acquisition order, each with
                \*   the place of its UnitHeader once writeLock has stored it
    npub,       \* history: number of completed writeUnlock calls
    units,      \* history: page -> {<<offset, index in emitted>>} of this cycle
    delivered,  \* history: what the reader's callback received
    results,    \* history: the ReadResult of each readOnce call
    openedAt,   \* history: the writer's state when the reader was constructed
    guards,     \* dDetector::Stack objects constructed so far, in order
    parsed      \* what the parse primitives returned for the last callback

vars == <<mode, file, wstate, w, mutex, pc, op, ptr, rstate, r, clock,
          emitted, npub, units, delivered, results, openedAt, guards, parsed>>

\* ---------------------------------------------------------- byte helpers
Min(a, b) == IF a < b THEN a ELSE b

U16Bytes(v) == << v % 256, (v \div 256) % 256 >>

\* little-endian two's complement of a value with |v| < 2^31
IntBytes(v, width) ==
    [k \in 1 .. width |->
        IF k <= 4 THEN (v \div (256 ^ (k - 1))) % 256
        ELSE IF v < 0 THEN 255 ELSE 0]

\* a page is the tuple of its 4-byte units, each the tuple of its bytes
ByteAt(pg, off) == pg[(off \div LOG_UNIT_PACKING) + 1][(off % LOG_UNIT_PACKING) + 1]
Get16(pg, off) == ByteAt(pg, off) + 256 * ByteAt(pg, off + 1)

\* memcpy(mBuffer + off, bytes): the bytes that fall inside the mapped view
PutBytes(pg, off, bytes) ==
    [u \in 1 .. Len(pg) |->
        [b \in 1 .. LOG_UNIT_PACKING |->
            LET i == (u - 1) * LOG_UNIT_PACKING + (b - 1) IN
            IF i >= off /\ i < off + Len(bytes) THEN bytes[i - off + 1] ELSE pg[u][b]]]

ZeroPage == [u \in 1 .. PageUnits |-> [b \in 1 .. LOG_UNIT_PACKING |-> 0]]
ZeroFile == [p \in Pages |-> ZeroPage]

\* --------------------------------------------------------------- LogPageP
alignedSize(size) ==
    ((size + LOG_UNIT_PACKING - 1) \div LOG_UNIT_PACKING) * LOG_UNIT_PACKING

LogPageInit == [mBuffer |-> FALSE, mBufferOffset |-> 0, mPageOffset |-> 0, mPageID |-> 0]

\* uint16_t((offset - sizeof(PageHeader)) / LOG_UNIT_PACKING): the subtraction
\* is done in size_t, so it wraps modulo a power of two that 4 * 65536 divides
HeaderPackingCount(offset) ==
    ((offset - sizeof_PageHeader) % (LOG_UNIT_PACKING * UINT16_RANGE)) \div LOG_UNIT_PACKING

\* the page after memcpy(mBuffer, &NewHeader, sizeof(PageHeader))
rewriteHeader(pg, actcode, offset, pageID) ==
    PutBytes(pg, 0, << CodeSharp, actcode >> \o U16Bytes(HeaderPackingCount(offset))
                    \o IntBytes(pageID, 4))

\* uint16_t((payloadSize + LOG_UNIT_PACKING - 1) / LOG_UNIT_PACKING)
UnitPackingCount(payloadSize) ==
    ((payloadSize + LOG_UNIT_PACKING - 1) \div LOG_UNIT_PACKING) % UINT16_RANGE


\* -------------------------------------------------------- DetectorWriterP
\* A string argument (s, sn): sn bytes, of which txt holds the leading ones and
\* the rest, when sn exceeds Len(txt), are the filler byte 'x'.
Str(txt) == [len |-> Len(txt), txt |-> txt]
LongStr(n) == [len |-> n, txt |-> << >>]
StrByte(s, i) == IF i <= Len(s.txt) THEN s.txt[i] ELSE 120

TWidth(shape) == IF shape \in {"T8", "ST8"} THEN 8 ELSE 4
HasString(shape) == shape \in {"S", "SS", "ST4", "ST8"}

\* One encoder call: writeS / writeSS / writeT<T> / writeST<T>
Call(fid, shape, s1, s2, n) == [fid |-> fid, shape |-> shape, s1 |-> s1, s2 |-> s2, n |-> n]
NoCall == Call(0, "T4", Str(<< >>), Str(<< >>), 0)

\* the bytes an encoder stores for one string block: length, characters, NUL
\* (the rest of the aligned block is not written); cut after the first byte
\* that cannot fall inside a page
SBlockLen(s) == sizeof_uint16 + s.len + 1
SBlockBytes(s) ==
    [k \in 1 .. Min(SBlockLen(s), LOG_PAGE_SIZE + 1) |->
        IF k <= 2 THEN U16Bytes(s.len % UINT16_RANGE)[k]
        ELSE IF k <= 2 + s.len THEN StrByte(s, k - 2)
        ELSE 0]

PayloadSize1(c) ==
    IF HasString(c.shape) THEN alignedSize(SBlockLen(c.s1))
    ELSE alignedSize(TWidth(c.shape))
PayloadSize2(c) ==
    CASE c.shape = "SS" -> alignedSize(SBlockLen(c.s2))
      [] c.shape \in {"ST4", "ST8"} -> alignedSize(TWidth(c.shape))
      [] OTHER -> 0

\* the payloadSize each encoder hands to writeLock
writeS_payloadSize(c)  == PayloadSize1(c)
writeSS_payloadSize(c) == PayloadSize1(c)
writeT_payloadSize(c)  == PayloadSize1(c)
writeST_payloadSize(c) == PayloadSize1(c) + PayloadSize2(c)
DeclaredSize(c) ==
    CASE c.shape = "S"  -> writeS_payloadSize(c)
      [] c.shape = "SS" -> writeSS_payloadSize(c)
      [] c.shape \in {"T4", "T8"} -> writeT_payloadSize(c)
      [] OTHER -> writeST_payloadSize(c)

\* the bytes stored by the k-th "payload" paragraph of the encoder, its true
\* length, and how far it moves PayloadPtr
BlockBytes(c, k) ==
    IF k = 1
    THEN (IF HasString(c.shape) THEN SBlockBytes(c.s1) ELSE IntBytes(c.n, TWidth(c.shape)))
    ELSE (IF c.shape = "SS" THEN SBlockBytes(c.s2) ELSE IntBytes(c.n, TWidth(c.shape)))
BlockLen(c, k) ==
    IF k = 1
    THEN (IF HasString(c.shape) THEN SBlockLen(c.s1) ELSE TWidth(c.shape))
    ELSE (IF c.shape = "SS" THEN SBlockLen(c.s2) ELSE TWidth(c.shape))
BlockAdvance(c, k) == IF k = 1 THEN PayloadSize1(c) ELSE PayloadSize2(c)
NumBlocks(c) == IF c.shape \in {"SS", "ST4", "ST8"} THEN 2 ELSE 1


\* ---------------------------------------------------------- dDetector API
stamp(name, now)          == Call(StampST, "ST8", name, Str(<< >>), now)
setValueSS(name, value)   == Call(SetValueSS, "SS", name, value, 0)
setValueST(name, value)   == Call(SetValueST, "ST4", name, Str(<< >>), value)
addValue(name, addition)  == Call(AddValueST, "ST4", name, Str(<< >>), addition)
trace(level, text)        == Call(TraceST, "ST4", text, Str(<< >>), level)
StackCtor(name, now)      == Call(ScopeBeginST, "ST8", name, Str(<< >>), now)
\* mutant of StackDtor: the destructor writes a begin record
StackDtor_WritesBegin(name, now) == Call(ScopeBeginST, "ST8", name, Str(<< >>), now)
StackDtor(name, now)      == Call(ScopeEndST, "ST8", name, Str(<< >>), now)

\* --------------------------------------------------------- LogPageWriterP
\* mutant of validPageClose: the old page is left '+' when the writer rotates
validPageClose_KeepsBusy(f, wr, space) ==
    IF wr.mBuffer /\ LOG_PAGE_SIZE < wr.mBufferOffset + space
    THEN [file |-> f,
          w    |-> [mBuffer |-> FALSE, mBufferOffset |-> 0,
                    mPageOffset |-> (wr.mPageOffset + 1) % LOG_PAGE_COUNT,
                    mPageID |-> 0]]
    ELSE [file |-> f, w |-> wr]

\* validPage, "clean up the current page": the file and the writer after it
validPageClose(f, wr, space) ==
    IF wr.mBuffer /\ LOG_PAGE_SIZE < wr.mBufferOffset + space
    THEN [file |-> [f EXCEPT ![wr.mPageOffset] =
                        rewriteHeader(@, ActClosed, wr.mBufferOffset, wr.mPageID)],
          w    |-> [mBuffer |-> FALSE, mBufferOffset |-> 0,
                    mPageOffset |-> (wr.mPageOffset + 1) % LOG_PAGE_COUNT,
                    mPageID |-> 0]]
    ELSE [file |-> f, w |-> wr]

\* mutant of MutexFree: writeLock does not wait for the mutex
MutexFree_NoWait == TRUE

\* mMutex.lock() returns only when no thread holds the mutex
MutexFree == mutex = 0

\* the offset validPage hands to rewriteHeader for a page it creates
NewPageOffsetArg == sizeof_UnitHeader

\* A thread enters an encoder with call c and reaches writeLock.  The first
\* use of DetectorWriterP::ST() constructs the singleton, which creates the
\* file.  (clock and guards are left to the caller.)
Begin(t, c) ==
    /\ wstate \in {"none", "alive"}
    /\ pc[t] = "idle"
    /\ Len(emitted) + Cardinality({u \in Threads : pc[u] = "lock"})
          < (CASE mode = "codec" -> CodecRecords
               [] mode = "scope" -> ScopeRecords
               [] mode = "wrap"  -> WrapRecords
               [] mode = "cycle" -> CycleRecords
               [] OTHER -> MaxRecords)
    /\ file' = (IF wstate = "none" THEN ZeroFile ELSE file)
    /\ wstate' = "alive"
    /\ op' = [op EXCEPT ![t] = c]
    /\ pc' = [pc EXCEPT ![t] = "lock"]
    /\ UNCHANGED <<mode, w, mutex, ptr, rstate, r, emitted, npub, units, delivered,
                   results, openedAt, parsed>>

\* writeLock up to the end of validPage's clean-up: lock the mutex, build the
\* UnitHeader, close the current page when the unit does not fit
WriteLockEnter(t) ==
    /\ wstate = "alive"
    /\ pc[t] = "lock"
    /\ MutexFree
    /\ LET c     == op[t]
           space == sizeof_UnitHeader
                      + LOG_UNIT_PACKING * UnitPackingCount(DeclaredSize(c))
           v     == validPageClose(file, w, space)
       IN /\ file' = v.file
          /\ w' = v.w
          /\ pc' = [pc EXCEPT ![t] = IF v.w.mBuffer THEN "unit" ELSE "newpage"]
          /\ emitted' = Append(emitted,
                            [call |-> c, thread |-> t, page |-> NoBuffer, off |-> 0])
    /\ mutex' = t
    /\ UNCHANGED <<mode, wstate, op, ptr, rstate, r, clock, npub, units, delivered,
                   results, openedAt, guards, parsed>>

\* validPage, "build the new page": map it and stamp its PageHeader
ValidPageNew(t) ==
    /\ wstate = "alive"
    /\ pc[t] = "newpage"
    /\ file' = [file EXCEPT ![w.mPageOffset] =
                   rewriteHeader(@, ActBusy, NewPageOffsetArg, w.mPageID)]
    /\ w' = [w EXCEPT !.mBuffer = TRUE, !.mBufferOffset = sizeof_PageHeader]
    /\ units' = [units EXCEPT ![w.mPageOffset] = {}]
    /\ pc' = [pc EXCEPT ![t] = "unit"]
    /\ UNCHANGED <<mode, wstate, mutex, op, ptr, rstate, r, clock, emitted, npub,
                   delivered, results, openedAt, guards, parsed>>

\* writeLock, "copy the unit header", and return of the payload pointer
WriteLockUnit(t) ==
    /\ wstate = "alive"
    /\ pc[t] = "unit"
    /\ LET c     == op[t]
           count == UnitPackingCount(DeclaredSize(c))
           idx   == CHOOSE i \in 1 .. Len(emitted) :
                        emitted[i].thread = t /\ emitted[i].page = NoBuffer
       IN /\ file' = [file EXCEPT ![w.mPageOffset] =
                         PutBytes(@, w.mBufferOffset, U16Bytes(count) \o U16Bytes(c.fid))]
          /\ emitted' = [emitted EXCEPT ![idx].page = w.mPageOffset,
                                        ![idx].off = w.mBufferOffset]
          /\ units' = [units EXCEPT ![w.mPageOffset] = @ \cup {<<w.mBufferOffset, idx>>}]
    /\ ptr' = [ptr EXCEPT ![t] = w.mBufferOffset + sizeof_UnitHeader]
    /\ pc' = [pc EXCEPT ![t] = "fill1"]
    /\ UNCHANGED <<mode, wstate, w, mutex, op, rstate, r, clock, npub,
                   delivered, results, openedAt, guards, parsed>>

\* the k-th "payload" paragraph of the encoder.  A store past the end of the
\* mapped view is undefined: the process faults, or the stray bytes land
\* outside the file and the encoder goes on.
Fill(t, k) ==
    /\ wstate = "alive"
    /\ pc[t] = (IF k = 1 THEN "fill1" ELSE "fill2")
    /\ LET c == op[t]
           outside == ptr[t] + BlockLen(c, k) > LOG_PAGE_SIZE
       IN \E fault \in (IF outside THEN {TRUE, FALSE} ELSE {FALSE}) :
            IF fault
            THEN /\ wstate' = "crashed"
                 /\ UNCHANGED <<file, ptr, pc>>
            ELSE /\ file' = [file EXCEPT ![w.mPageOffset] =
                                PutBytes(@, ptr[t], BlockBytes(c, k))]
                 /\ ptr' = [ptr EXCEPT ![t] = @ + BlockAdvance(c, k)]
                 /\ pc' = [pc EXCEPT ![t] = IF k < NumBlocks(c) THEN "fill2" ELSE "unlock"]
                 /\ UNCHANGED wstate
    /\ UNCHANGED <<mode, w, mutex, op, rstate, r, clock, emitted, npub, units,
                   delivered, results, openedAt, guards, parsed>>

writeUnlock(t) ==
    /\ wstate = "alive"
    /\ pc[t] = "unlock"
    /\ w' = [w EXCEPT !.mBufferOffset = ptr[t]]
    /\ file' = [file EXCEPT ![w.mPageOffset] =
                   rewriteHeader(@, ActBusy, ptr[t], w.mPageID)]
    /\ mutex' = 0
    /\ npub' = npub + 1
    /\ pc' = [pc EXCEPT ![t] = "idle"]
    /\ UNCHANGED <<mode, wstate, op, ptr, rstate, r, clock, emitted, units,
                   delivered, results, openedAt, guards, parsed>>

\* the emission of thread t is aborted (the process dies) after writeLock has
\* returned and before writeUnlock is called: nothing more is written
Abort(t) ==
    /\ wstate = "alive"
    /\ pc[t] \in {"fill1", "fill2", "unlock"}
    /\ wstate' = "crashed"
    /\ UNCHANGED <<mode, file, w, mutex, pc, op, ptr, rstate, r, clock, emitted, npub,
                   units, delivered, results, openedAt, guards, parsed>>

\* mutant of WriterClose: _quit_ does not rewrite the header of the live page
WriterClose_LeavesBusy ==
    /\ wstate = "alive"
    /\ mutex = 0
    /\ \A t \in Threads : pc[t] = "idle"
    /\ w' = LogPageInit
    /\ wstate' = "closed"
    /\ UNCHANGED <<mode, file, mutex, pc, op, ptr, rstate, r, clock, emitted, npub, units,
                   delivered, results, openedAt, guards, parsed>>

\* ~DetectorWriterP: LogPageWriterP::close, i.e. _quit_ then _init_
WriterClose ==
    /\ wstate = "alive"
    /\ mutex = 0
    /\ \A t \in Threads : pc[t] = "idle"
    /\ file' = IF w.mBuffer
               THEN [file EXCEPT ![w.mPageOffset] =
                        rewriteHeader(@, ActTerminal, w.mBufferOffset, w.mPageID)]
               ELSE file
    /\ w' = LogPageInit
    /\ wstate' = "closed"
    /\ UNCHANGED <<mode, mutex, pc, op, ptr, rstate, r, clock, emitted, npub, units,
                   delivered, results, openedAt, guards, parsed>>


\* --------------------------------------------------------- LogPageReaderP
ReaderInit == [mBuffer |-> NoBuffer, mBufferOffset |-> 0, mPageOffset |-> 0,
               mPageID |-> 0, mPageBusy |-> FALSE, mPageSize |-> 0]

\* the watermark a PageHeader publishes
HeaderPageSize(pg) == sizeof_PageHeader + LOG_UNIT_PACKING * Get16(pg, 2)

\* loadPage: the reader after it, and its result
loadPage(f, rd) ==
    LET NewHeader == f[rd.mPageOffset] IN
    IF ByteAt(NewHeader, 0) = CodeSharp
    THEN [rd |-> [rd EXCEPT !.mBuffer = rd.mPageOffset,
                            !.mBufferOffset = sizeof_PageHeader,
                            !.mPageID = 0,
                            !.mPageBusy = (ByteAt(NewHeader, 1) = ActBusy),
                            !.mPageSize = HeaderPageSize(NewHeader)],
          result |-> IF ByteAt(NewHeader, 1) = ActTerminal THEN "ExitProgram" ELSE "Readed"]
    ELSE [rd |-> rd, result |-> "Unreaded"]

\* readOnce, "page realignment" of a busy page: re-sample the PageHeader
resamplePage(f, rd) ==
    LET CurHeader == f[rd.mBuffer]
        size      == HeaderPageSize(CurHeader)
    IN [rd |-> [rd EXCEPT !.mPageBusy = (ByteAt(CurHeader, 1) = ActBusy), !.mPageSize = size],
        result |-> IF ByteAt(CurHeader, 1) = ActTerminal THEN "ExitProgram"
                   ELSE IF rd.mBufferOffset = size THEN "Unreaded"
                   ELSE "Readed"]

\* readOnce, "page realignment" of a closed page: move to the next page
advancePage(f, rd) ==
    LET moved == [rd EXCEPT !.mPageOffset = (rd.mPageOffset + 1) % LOG_PAGE_COUNT]
        got   == loadPage(f, moved)
    IN IF got.result # "Readed"
       THEN [rd |-> [got.rd EXCEPT !.mPageOffset = rd.mPageOffset], result |-> got.result]
       ELSE got

\* readOnce up to the point where it either returns or reads a unit
readOnceResolve(f, rd) ==
    IF rd.mBufferOffset = rd.mPageSize
    THEN (IF rd.mPageBusy THEN resamplePage(f, rd) ELSE advancePage(f, rd))
    ELSE [rd |-> rd, result |-> "Readed"]

\* the bytes of the payload area the callback is handed that lie in the page
PayloadView(pg, off, len) ==
    [k \in 1 .. Min(len, IF off < LOG_PAGE_SIZE THEN LOG_PAGE_SIZE - off ELSE 0) |->
        ByteAt(pg, off + k - 1)]

\* the record the callback is handed.  rec and done are history: the emitted
\* record whose UnitHeader sits at this place now, and whether its writeUnlock
\* has completed.
Delivery(rd, fid, len) ==
    LET here == {u \in units[rd.mBuffer] : u[1] = rd.mBufferOffset}
        rec  == IF here = {} THEN 0 ELSE (CHOOSE u \in here : TRUE)[2]
    IN [fid |-> fid, len |-> len,
        payload |-> PayloadView(file[rd.mBuffer], rd.mBufferOffset + sizeof_UnitHeader, len),
        page |-> rd.mBuffer, off |-> rd.mBufferOffset,
        rec |-> rec, done |-> (rec # 0 /\ rec <= npub)]

\* what a read past the end of the mapped view can return as a UnitHeader
StrayUnits == { <<0, 0>> }

\* mutant of ReadResultEntry: readOnce returns Unreaded whatever it did
ReadResultEntry_Unreaded(res) == [res |-> "Unreaded", closed |-> (wstate = "closed")]

\* the ReadResult a readOnce call returns (closed is history: whether the
\* writer had exited by then)
ReadResultEntry(res) == [res |-> res, closed |-> (wstate = "closed")]

\* mutant of isValid: the read-only FileMapP is taken as valid without a file
isValid_Always(ws) == TRUE

\* FileMapP::isValid of the read-only FileMapP: open(filename, O_RDONLY)
\* succeeded, i.e. a writer (in state ws now) has created the file
isValid(ws) == ws # "none"

\* DetectorReaderP(): open the file read-only; when it is there, loadPage
ReaderConstruct ==
    /\ mode \in {"main", "codec", "wrap", "cycle"}
    /\ rstate = "none"
    /\ IF ~ isValid(wstate)
       THEN rstate' = "nofile" /\ r' = r
       ELSE rstate' = "open" /\ r' = loadPage(file, r).rd
    /\ openedAt' = wstate
    /\ UNCHANGED <<mode, file, wstate, w, mutex, pc, op, ptr, clock, emitted, npub,
                   units, delivered, results, guards, parsed>>

\* dDetector::readOnce -> DetectorReaderP::readOnce -> LogPageReaderP::readOnce.
\* Reading the UnitHeader past the end of the mapped view is undefined: the
\* reader faults, or it reads whatever lies there.
readOnce ==
    /\ rstate \in {"open", "nofile"}
    /\ Len(results) < MaxReads
    /\ IF rstate = "nofile"
       THEN /\ results' = Append(results, ReadResultEntry("LogNotFound"))
            /\ UNCHANGED <<r, rstate, delivered>>
       ELSE LET a == readOnceResolve(file, r) IN
            IF a.result # "Readed"
            THEN /\ results' = Append(results, ReadResultEntry(a.result))
                 /\ r' = a.rd
                 /\ UNCHANGED <<rstate, delivered>>
            ELSE IF a.rd.mBuffer = NoBuffer
                    \/ a.rd.mBufferOffset + sizeof_UnitHeader > LOG_PAGE_SIZE
            THEN \/ /\ rstate' = "crashed"
                    /\ r' = a.rd
                    /\ UNCHANGED <<delivered, results>>
                 \/ /\ a.rd.mBuffer # NoBuffer
                    /\ \E u \in StrayUnits :
                         /\ delivered' = Append(delivered,
                               Delivery(a.rd, u[2], LOG_UNIT_PACKING * u[1]))
                         /\ r' = [a.rd EXCEPT !.mBufferOffset =
                                     @ + sizeof_UnitHeader + LOG_UNIT_PACKING * u[1]]
                    /\ results' = Append(results, ReadResultEntry("Readed"))
                    /\ UNCHANGED rstate
            ELSE LET pg    == file[a.rd.mBuffer]
                     count == Get16(pg, a.rd.mBufferOffset)
                     fid   == Get16(pg, a.rd.mBufferOffset + 2)
                 IN /\ delivered' = Append(delivered,
                          Delivery(a.rd, fid, LOG_UNIT_PACKING * count))
                    /\ r' = [a.rd EXCEPT !.mBufferOffset =
                                @ + sizeof_UnitHeader + LOG_UNIT_PACKING * count]
                    /\ results' = Append(results, ReadResultEntry("Readed"))
                    /\ UNCHANGED rstate
    /\ parsed' = << >>
    /\ UNCHANGED <<mode, file, wstate, w, mutex, pc, op, ptr, clock, emitted, npub,
                   units, openedAt, guards>>

\* ------------------------------------------------- the main specification
\* one writer thread and one reader process on the shared file
Names  == { Str(<<65>>) }
Texts  == { Str(<<66>>) }
Int32s == { 7 }

now == clock
Tick == clock' = Min(clock + 1, MaxClock)

ApiCalls == {stamp(n, now) : n \in Names}
              \cup {setValueSS(n, v) : n \in Names, v \in Texts}
              \cup {setValueST(n, v) : n \in Names, v \in Int32s}

ActiveThreads == IF mode = "mt" THEN Threads ELSE {1}

\* a thread calls stamp or setValue
Emit(t) ==
    /\ mode \in {"main", "mt", "wrap", "cycle"}
    /\ t \in ActiveThreads
    /\ \E c \in ApiCalls : Begin(t, c)
    /\ Tick
    /\ UNCHANGED guards

InitCommon ==
    /\ file = ZeroFile
    /\ wstate = "none"
    /\ w = LogPageInit
    /\ mutex = 0
    /\ pc = [t \in Threads |-> "idle"]
    /\ op = [t \in Threads |-> NoCall]
    /\ ptr = [t \in Threads |-> 0]
    /\ rstate = "none"
    /\ r = ReaderInit
    /\ clock = 0
    /\ emitted = << >>
    /\ npub = 0
    /\ units = [p \in Pages |-> {}]
    /\ delivered = << >>
    /\ results = << >>
    /\ openedAt = "unopened"
    /\ guards = << >>
    /\ parsed = << >>

Init == mode = "main" /\ InitCommon

WriterStep(t) ==
    \/ WriteLockEnter(t)
    \/ ValidPageNew(t)
    \/ WriteLockUnit(t)
    \/ Fill(t, 1)
    \/ Fill(t, 2)
    \/ writeUnlock(t)

Next ==
    \/ \E t \in Threads : Emit(t)
    \/ \E t \in Threads : WriterStep(t)
    \/ \E t \in Threads : Abort(t)
    \/ WriterClose
    \/ ReaderConstruct
    \/ readOnce

Spec == Init /\ [][Next]_vars


\* ------------------------------------------------------------------ claims
PageActivity(p) == ByteAt(file[p], 1)
PageCount(p)    == Get16(file[p], 2)
Stamped(p)      == ByteAt(file[p], 0) = CodeSharp

\* C1: every record the reader hands to its callback is a record whose
\* writeUnlock had completed before the callback ran; the reader never
\* delivers a record that is between writeLock and writeUnlock, nor bytes of
\* a page the writer has stamped but not yet filled.
C1_DeliveredOnlyPublished ==
    \A i \in 1 .. Len(delivered) : delivered[i].done


\* C2: while the writer has not wrapped the ring, the (funcId, payload) pairs
\* delivered to the callback are a prefix of the records the writer emitted,
\* in emission order: nothing lost, duplicated, reordered or invented.
Pad(bytes, size) == [k \in 1 .. size |-> IF k <= Len(bytes) THEN bytes[k] ELSE 0]
\* the payload of an emitted record in a fresh (zero-filled) page
EncodedPayload(c) ==
    Pad(BlockBytes(c, 1), PayloadSize1(c))
      \o (IF NumBlocks(c) = 2 THEN Pad(BlockBytes(c, 2), PayloadSize2(c)) ELSE << >>)
Wrapped ==
    \/ \E i, j \in 1 .. Len(emitted) :
          i < j /\ emitted[j].page # NoBuffer /\ emitted[j].page < emitted[i].page
    \/ \E i \in 1 .. Len(emitted) : wstate # "closed" /\ w.mPageOffset < emitted[i].page
C2_DeliveredIsPrefixOfEmitted ==
    ~Wrapped =>
        /\ Len(delivered) <= Len(emitted)
        /\ \A i \in 1 .. Len(delivered) :
              /\ delivered[i].fid = emitted[i].call.fid
              /\ delivered[i].payload = EncodedPayload(emitted[i].call)

\* C4: the writer emits one stamp and exits cleanly; a reader opened after the
\* exit (one of the two cases the claim names) receives that StampST record
\* from its first readOnce, and its second readOnce returns ExitProgram.
C4_StampThenExit ==
    (/\ wstate = "closed"
     /\ openedAt = "closed"
     /\ Len(emitted) = 1
     /\ emitted[1].call.fid = StampST)
    => /\ (Len(results) >= 1 =>
              /\ results[1].res = "Readed"
              /\ delivered[1].fid = StampST
              /\ delivered[1].payload = EncodedPayload(emitted[1].call))
       /\ (Len(results) >= 2 => results[2].res = "ExitProgram")

\* C6: at most one page has activity '+', and it is the page at the writer's
\* current pageOffset.
ActivePages == {p \in Pages : Stamped(p) /\ PageActivity(p) = ActBusy}
C6_SingleActivePage ==
    /\ Cardinality(ActivePages) <= 1
    /\ \A p \in ActivePages : p = w.mPageOffset

\* C7: every page with activity '+' or '-' publishes a watermark inside the
\* page: sizeof(PageHeader) + packingCount * 4 <= LOG_PAGE_SIZE.
C7_PageBound ==
    \A p \in Pages :
        (Stamped(p) /\ PageActivity(p) \in {ActBusy, ActClosed})
            => HeaderPageSize(file[p]) <= LOG_PAGE_SIZE

\* C8: while a page stays '+', its published packingCount never decreases
\* from one header value to the next, the value stamped at creation included.
C8_MonotoneWhileBusy ==
    [][\A p \in Pages :
          (Stamped(p) /\ PageActivity(p) = ActBusy
             /\ (Stamped(p))' /\ (PageActivity(p))' = ActBusy)
          => (PageCount(p))' >= PageCount(p)]_vars


C6_Witness ==
    /\ Wrapped
    /\ ActivePages = {w.mPageOffset}
    /\ \E p \in Pages : Stamped(p) /\ PageActivity(p) = ActClosed

\* ---------------------------------------- the multi-threaded specification
\* NumThreads writer threads in one process, no reader
InitMT == mode = "mt" /\ InitCommon

NextMT ==
    \/ \E t \in Threads : Emit(t)
    \/ \E t \in Threads : WriterStep(t)
    \/ WriterClose

SpecMT == InitMT /\ [][NextMT]_vars

\* C5: at most one thread is between writeLock and writeUnlock, the byte
\* ranges of two records never overlap, and the records lie in the ring in
\* the order in which their threads acquired the mutex.
\* the threads that have acquired the mutex in writeLock and not yet released it
InFlight == {t \in Threads : pc[t] \notin {"idle", "lock"}}
RecordEnd(u) ==
    u[1] + sizeof_UnitHeader + PayloadSize1(emitted[u[2]].call)
         + PayloadSize2(emitted[u[2]].call)
C5_SerializedWriters ==
    /\ Cardinality(InFlight) <= 1
    /\ \A t \in InFlight : mutex = t
    /\ \A p \in Pages : \A u1, u2 \in units[p] :
          u1 # u2 =>
             /\ (RecordEnd(u1) <= u2[1] \/ RecordEnd(u2) <= u1[1])
             /\ (u1[2] < u2[2] <=> u1[1] < u2[1])
    /\ \A p, q \in Pages :
          p # q =>
             \/ \A u1 \in units[p], u2 \in units[q] : u1[2] < u2[2]
             \/ \A u1 \in units[p], u2 \in units[q] : u1[2] > u2[2]
    /\ \A p \in Pages : \A u \in units[p] :
          Get16(file[p], u[1] + 2) = emitted[u[2]].call.fid

C5_Witness ==
    \E p \in Pages : \E u1, u2 \in units[p] :
        /\ emitted[u1[2]].thread = 1
        /\ emitted[u2[2]].thread = 2
        /\ npub >= 2
        /\ pc[1] = "fill1"


\* ------------------------------------------------ the codec specification
\* One thread calls one of the four encoders; when the writer is idle the
\* reader reads the unit back and the client applies the parse primitives
\* that match the encoder.

\* *((int32_t*) payload), for the bytes at off
Int32At(pg, off) ==
    ByteAt(pg, off) + 256 * ByteAt(pg, off + 1) + 65536 * ByteAt(pg, off + 2)
      + 16777216 * (IF ByteAt(pg, off + 3) >= 128 THEN ByteAt(pg, off + 3) - 256
                    ELSE ByteAt(pg, off + 3))
\* *((int64_t*) payload), for the values the model stores (|v| < 2^31): the
\* high half is the sign extension of the low half
Int64At(pg, off) ==
    ByteAt(pg, off) + 256 * ByteAt(pg, off + 1) + 65536 * ByteAt(pg, off + 2)
      + 16777216 * (IF ByteAt(pg, off + 7) >= 128 THEN ByteAt(pg, off + 3) - 256
                    ELSE ByteAt(pg, off + 3))

\* the NUL-terminated bytes a utf8s points at
RECURSIVE CString(_, _)
CString(pg, at) ==
    IF at >= LOG_PAGE_SIZE \/ ByteAt(pg, at) = 0 THEN << >>
    ELSE << ByteAt(pg, at) >> \o CString(pg, at + 1)

\* each primitive: the value returned and the cursor after it
parseInt32(pg, payload) ==
    [value |-> Int32At(pg, payload), payload |-> payload + alignedSize(4)]
parseInt64(pg, payload) ==
    [value |-> Int64At(pg, payload), payload |-> payload + alignedSize(8)]
parseString(pg, payload) ==
    LET StringLength == Get16(pg, payload) IN
    [value |-> CString(pg, payload + sizeof_uint16),
     payload |-> payload + alignedSize(sizeof_uint16 + StringLength + 1)]

\* the primitives that match an encoder, in order
Primitives(shape) ==
    CASE shape = "S"   -> << "S" >>
      [] shape = "SS"  -> << "S", "S" >>
      [] shape = "T4"  -> << "I32" >>
      [] shape = "T8"  -> << "I64" >>
      [] shape = "ST4" -> << "S", "I32" >>
      [] shape = "ST8" -> << "S", "I64" >>
ApplyPrimitive(kind, pg, payload) ==
    CASE kind = "S"   -> parseString(pg, payload)
      [] kind = "I32" -> parseInt32(pg, payload)
      [] kind = "I64" -> parseInt64(pg, payload)

\* the bytes a primitive reads before it moves the cursor
PrimitiveReads(kind) ==
    CASE kind = "S" -> sizeof_uint16 [] kind = "I32" -> 4 [] kind = "I64" -> 8

\* the client's callback body: the fields parsed, the cursor's advance,
\* whether each string parsed is followed by a NUL inside the page, and
\* whether a primitive was applied to a cursor whose bytes lie outside the
\* mapped page (a read the program leaves undefined: nothing is parsed)
RECURSIVE ParseAll(_, _, _, _)
ParseAll(kinds, pg, start, payload) ==
    IF kinds = << >>
    THEN [fields |-> << >>, advance |-> payload - start, nul |-> TRUE, fault |-> FALSE]
    ELSE IF payload + PrimitiveReads(Head(kinds)) > LOG_PAGE_SIZE
    THEN [fields |-> << >>, advance |-> payload - start, nul |-> FALSE, fault |-> TRUE]
    ELSE LET one  == ApplyPrimitive(Head(kinds), pg, payload)
             rest == ParseAll(Tail(kinds), pg, start, one.payload)
             at   == payload + sizeof_uint16 + Len(one.value)
         IN [fields  |-> << one.value >> \o rest.fields,
             advance |-> rest.advance,
             nul     |-> rest.nul /\ (Head(kinds) = "S" =>
                                        at < LOG_PAGE_SIZE /\ ByteAt(pg, at) = 0),
             fault   |-> rest.fault]

\* the fields an encoder call was given
OriginalFields(c) ==
    CASE c.shape = "S"  -> << c.s1.txt >>
      [] c.shape = "SS" -> << c.s1.txt, c.s2.txt >>
      [] c.shape \in {"T4", "T8"} -> << c.n >>
      [] OTHER -> << c.s1.txt, c.n >>

CodecStrs == { Str(<< >>), Str(<<65>>), Str(<<65, 66>>), Str(<<65, 66, 67>>) }
CodecInts == { 0, 7, -1, 70000 }
BoundedCalls ==
    {Call(TraceST, "S", s, Str(<< >>), 0) : s \in CodecStrs}
      \cup {Call(SetValueSS, "SS", s1, s2, 0) : s1 \in CodecStrs, s2 \in CodecStrs}
      \cup {Call(TraceST, sh, Str(<< >>), Str(<< >>), n) : sh \in {"T4", "T8"}, n \in CodecInts}
      \cup {Call(TraceST, sh, s, Str(<< >>), n) :
              sh \in {"ST4", "ST8"}, s \in CodecStrs, n \in CodecInts}
LongCalls ==
    { Call(TraceST, "S", LongStr(LongLen), Str(<< >>), 0),
      Call(TraceST, "ST4", LongStr(LongLen), Str(<< >>), 0) }
CodecCalls == BoundedCalls \cup LongCalls

WriterIdle == mutex = 0 /\ \A t \in Threads : pc[t] = "idle"

\* a call of writeS, writeSS, writeT<T> or writeST<T>
EncoderCall ==
    /\ mode = "codec"
    /\ \E c \in CodecCalls : Begin(1, c)
    /\ UNCHANGED <<clock, guards>>

CodecOpen == WriterIdle /\ ReaderConstruct
ReadBack  == WriterIdle /\ readOnce

\* the callback applies the matching primitives to the payload it was given
Parse ==
    /\ mode = "codec"
    /\ parsed = << >>
    /\ Len(delivered) > 0
    /\ LET d == delivered[Len(delivered)] IN
       /\ d.rec # 0
       /\ LET c   == emitted[d.rec].call
              got == ParseAll(Primitives(c.shape), file[d.page],
                              d.off + sizeof_UnitHeader, d.off + sizeof_UnitHeader)
          IN parsed' = << [call |-> c, len |-> d.len, fields |-> got.fields,
                           advance |-> got.advance, nul |-> got.nul,
                           fault |-> got.fault] >>
    /\ UNCHANGED <<mode, file, wstate, w, mutex, pc, op, ptr, rstate, r, clock, emitted,
                   npub, units, delivered, results, openedAt, guards>>

InitCodec == mode = "codec" /\ InitCommon

NextCodec ==
    \/ EncoderCall
    \/ WriterStep(1)
    \/ WriterClose
    \/ CodecOpen
    \/ ReadBack
    \/ Parse

SpecCodec == InitCodec /\ [][NextCodec]_vars

\* C3: round trip of the four payload shapes: for bounded strings and
\* integers the matching parse primitives give back the original fields, each
\* string is followed by its NUL, and the cursor ends exactly the payload
\* length the callback was given (UnitHeader.packingCount * 4) further.
C3_RoundTrip ==
    \A i \in 1 .. Len(parsed) :
        parsed[i].call \in BoundedCalls =>
            /\ ~ parsed[i].fault
            /\ parsed[i].fields = OriginalFields(parsed[i].call)
            /\ parsed[i].nul
            /\ parsed[i].advance = parsed[i].len

\* C9: for every record, the stored 16-bit UnitHeader.packingCount times 4
\* equals alignedSize of the payloadSize handed to writeLock, for every
\* payloadSize the encoders produce, long strings included.
C9_UnitCountIsAlignedSize ==
    \A p \in Pages : \A u \in units[p] :
        LOG_UNIT_PACKING * Get16(file[p], u[1])
            = alignedSize(DeclaredSize(emitted[u[2]].call))

\* ------------------------------------------------ the scope specification
\* One thread creates scope guards with scope(name), move-constructs guards
\* from them, calls addValue, and destroys its guards in reverse order of
\* construction (block-scope objects).  A guard is
\*   [mName, origin, live, moved, beginRec, endRec]
\* origin is the guard scope() made, live whether its destructor has yet to
\* run, moved whether it was the source of a move; beginRec and endRec are the
\* positions in emitted of the records its constructor and destructor wrote
\* (0: none).

ScopeNames == { Str(<<65>>), Str(<<66>>) }

\* what dLiteral's move constructor leaves in the source is not in this
\* repository: the source keeps its name or is left empty
MovedFromNames(name) == { name, Str(<< >>) }

LiveGuards == { g \in 1 .. Len(guards) : guards[g].live }
LastLive   == CHOOSE g \in LiveGuards : \A h \in LiveGuards : h <= g

\* the clock between two calls of now()
ClockStep == clock' \in { clock, Min(clock + 1, MaxClock) }

\* scope(name): Stack(name), constructed in place
scope ==
    /\ mode = "scope"
    /\ Len(guards) < MaxGuards
    /\ \E name \in ScopeNames :
          /\ Begin(1, StackCtor(name, now))
          /\ guards' = Append(guards, [mName |-> name, origin |-> Len(guards) + 1,
                                       live |-> TRUE, moved |-> FALSE,
                                       beginRec |-> Len(emitted) + 1, endRec |-> 0])
    /\ ClockStep

\* Stack(Stack&& rhs): takes the name, writes nothing, leaves rhs alive
StackMove ==
    /\ mode = "scope"
    /\ pc[1] = "idle"
    /\ Len(guards) < MaxGuards + 1
    /\ \E g \in LiveGuards : \E left \in MovedFromNames(guards[g].mName) :
          /\ ~ guards[g].moved
          /\ guards' = Append([guards EXCEPT ![g].moved = TRUE, ![g].mName = left],
                              [mName |-> guards[g].mName, origin |-> guards[g].origin,
                               live |-> TRUE, moved |-> FALSE,
                               beginRec |-> 0, endRec |-> 0])
    /\ UNCHANGED <<mode, file, wstate, w, mutex, pc, op, ptr, rstate, r, clock, emitted,
                   npub, units, delivered, results, openedAt, parsed>>

\* ~Stack of the youngest live guard
StackDestroy ==
    /\ mode = "scope"
    /\ LiveGuards # {}
    /\ Begin(1, StackDtor(guards[LastLive].mName, now))
    /\ guards' = [guards EXCEPT ![LastLive].live = FALSE,
                                ![LastLive].endRec = Len(emitted) + 1]
    /\ ClockStep

\* addValue(name, 1) inside the scopes
ScopeAddValue ==
    /\ mode = "scope"
    /\ LiveGuards # {}
    /\ \E name \in ScopeNames : Begin(1, addValue(name, 1))
    /\ UNCHANGED <<clock, guards>>

InitScope == mode = "scope" /\ InitCommon

NextScope ==
    \/ scope
    \/ StackMove
    \/ StackDestroy
    \/ ScopeAddValue
    \/ WriterStep(1)

SpecScope == InitScope /\ [][NextScope]_vars

\* the guards that stand for the scope opened by guard o: o and the guards
\* move-constructed from it, directly or not
Family(o) == { g \in 1 .. Len(guards) : guards[g].origin = o }
Written(rec) == rec # 0 /\ rec <= Len(emitted)
FuncCount(fid) == Cardinality({ i \in 1 .. Len(emitted) : emitted[i].call.fid = fid })

\* C10: for every guard made by scope(name) exactly one ScopeEndST is written
\* for its ScopeBeginST, after it and with the same name; a moved-from guard
\* writes no ScopeEndST when destroyed, so once every guard is destroyed there
\* are as many ScopeEndST records as ScopeBeginST records.
C10_ScopePairing ==
    /\ \A g \in 1 .. Len(guards) : guards[g].moved => ~ Written(guards[g].endRec)
    /\ \A o \in 1 .. Len(guards) :
          guards[o].origin = o =>
             /\ Cardinality({ g \in Family(o) : Written(guards[g].endRec) }) <= 1
             /\ \A g \in Family(o) :
                   Written(guards[g].endRec) =>
                      /\ guards[o].beginRec < guards[g].endRec
                      /\ emitted[guards[g].endRec].call.fid = ScopeEndST
                      /\ emitted[guards[g].endRec].call.s1
                            = emitted[guards[o].beginRec].call.s1
    /\ (LiveGuards = {} /\ pc[1] = "idle") => FuncCount(ScopeEndST) = FuncCount(ScopeBeginST)

\* C11: when a scope outer encloses a scope inner that calls addValue, the
\* records are written in the order ScopeBeginST(outer), ScopeBeginST(inner),
\* AddValueST, ScopeEndST(inner), ScopeEndST(outer), and with a non-decreasing
\* clock their timestamps are non-decreasing in that order.
\* inner was made by scope() while outer, made by scope() before it, was alive
Encloses(o, i) ==
    /\ o < i
    /\ guards[o].origin = o /\ guards[i].origin = i
    /\ ~ guards[o].moved /\ ~ guards[i].moved
    /\ (guards[o].endRec = 0 \/ guards[i].beginRec < guards[o].endRec)
RecIs(rec, fid, name) ==
    emitted[rec].call.fid = fid /\ emitted[rec].call.s1 = name
C11_NestedScopeOrder ==
    \A o, i \in 1 .. Len(guards) :
        Encloses(o, i) =>
           /\ guards[o].beginRec < guards[i].beginRec
           /\ Written(guards[o].beginRec) => RecIs(guards[o].beginRec, ScopeBeginST, guards[o].mName)
           /\ Written(guards[i].beginRec) =>
                 /\ RecIs(guards[i].beginRec, ScopeBeginST, guards[i].mName)
                 /\ emitted[guards[o].beginRec].call.n <= emitted[guards[i].beginRec].call.n
           /\ Written(guards[i].endRec) =>
                 /\ RecIs(guards[i].endRec, ScopeEndST, guards[i].mName)
                 /\ guards[i].beginRec < guards[i].endRec
                 /\ emitted[guards[i].beginRec].call.n <= emitted[guards[i].endRec].call.n
                 /\ \A k \in (guards[i].beginRec + 1) .. (guards[i].endRec - 1) :
                       emitted[k].call.fid = AddValueST =>
                          /\ guards[o].beginRec < k
                          /\ guards[o].endRec # 0 => k < guards[o].endRec
           /\ guards[o].endRec # 0 =>
                 /\ ~ guards[i].live
                 /\ guards[i].endRec < guards[o].endRec
                 /\ Written(guards[o].endRec) =>
                       /\ RecIs(guards[o].endRec, ScopeEndST, guards[o].mName)
                       /\ emitted[guards[i].endRec].call.n <= emitted[guards[o].endRec].call.n

\* the five records of the nested run are in the file's history, the clock
\* having advanced between the first and the last
C11_Witness ==
    /\ Len(guards) = 2 /\ Encloses(1, 2)
    /\ Len(emitted) = 5 /\ npub = 5
    /\ << emitted[1].call.fid, emitted[2].call.fid, emitted[3].call.fid,
          emitted[4].call.fid, emitted[5].call.fid >>
         = << ScopeBeginST, ScopeBeginST, AddValueST, ScopeEndST, ScopeEndST >>
    /\ emitted[1].call.s1 # emitted[2].call.s1
    /\ emitted[1].call.n < emitted[5].call.n

\* -------------------------------------------- the ring-wrap specification
\* One writer thread fills the ring with no reader; the reader is constructed
\* only after LOG_PAGE_COUNT + 1 page rotations.

\* the rotations validPage has made: records placed on another page than the
\* record before them
Rotations ==
    Cardinality({ i \in 2 .. Len(emitted) :
                    emitted[i].page # NoBuffer /\ emitted[i].page # emitted[i - 1].page })

WrapOpen ==
    /\ Rotations >= LOG_PAGE_COUNT + 1
    /\ ReaderConstruct

InitWrap == mode = "wrap" /\ InitCommon

NextWrap ==
    \/ Emit(1)
    \/ WriterStep(1)
    \/ WriterClose
    \/ WrapOpen
    \/ readOnce

SpecWrap == InitWrap /\ [][NextWrap]_vars

\* C12: after LOG_PAGE_COUNT + 1 rotations with no reader the writer's
\* pageOffset has stayed inside the ring and wrapped, every emission
\* succeeded, and each rewritten page holds its records from offset
\* sizeof(PageHeader); a reader opened after the wrap receives only records
\* the writer emitted into the current ring contents, each whole.
C12_RingWrap ==
    /\ w.mPageOffset \in Pages
    /\ \A i \in 1 .. Len(emitted) : emitted[i].page = NoBuffer \/ emitted[i].page \in Pages
    /\ Rotations >= LOG_PAGE_COUNT + 1 =>
          /\ Wrapped
          /\ wstate # "crashed"
          /\ \A p \in Pages : units[p] # {} => \E u \in units[p] : u[1] = sizeof_PageHeader
    /\ rstate # "crashed"
    /\ \A i \in 1 .. Len(delivered) :
          /\ delivered[i].rec # 0
          /\ delivered[i].done
          /\ delivered[i].fid = emitted[delivered[i].rec].call.fid
          /\ delivered[i].len = PayloadSize1(emitted[delivered[i].rec].call)
                                  + PayloadSize2(emitted[delivered[i].rec].call)

\* C13: when the file could not be opened at the reader's construction, every
\* readOnce returns LogNotFound, hands nothing to the callback and leaves the
\* reader's fields as they were, whatever the writer does later; readOnce
\* returns LogNotFound in no other situation.
C13_LogNotFound ==
    /\ openedAt = "none" =>
          /\ \A i \in 1 .. Len(results) : results[i].res = "LogNotFound"
          /\ delivered = << >>
          /\ r = ReaderInit
    /\ openedAt # "none" =>
          \A i \in 1 .. Len(results) : results[i].res # "LogNotFound"

\* a reader constructed before any writer keeps answering LogNotFound after
\* the writer has created the file and published a record
C13_Witness ==
    /\ openedAt = "none"
    /\ Len(results) >= 2
    /\ results[Len(results)].res = "LogNotFound"
    /\ npub >= 1 /\ Stamped(0)

\* C14: when an emission is aborted between the return of writeLock and the
\* call of writeUnlock, the PageHeader in the file publishes only whole
\* records: its watermark is not beyond the start of the partial record,
\* whether writeLock stayed on the page or rotated to a new one.
C14_AbortLeavesWholeRecords ==
    \A t \in Threads :
        (wstate = "crashed" /\ pc[t] \in {"fill1", "fill2", "unlock"}) =>
            /\ Stamped(w.mPageOffset)
            /\ HeaderPageSize(file[w.mPageOffset]) <= w.mBufferOffset

\* C15: no page has activity '/' while the writer is alive; once the writer
\* is closed, the page it had live (the page of its last record) has activity
\* '/' and a packingCount that ends exactly at the end of the last record
\* published in it, and no page has activity '+'.
TerminalPages == {p \in Pages : Stamped(p) /\ PageActivity(p) = ActTerminal}
LastPage == emitted[Len(emitted)].page
PublishedEnd(p) ==
    CHOOSE e \in {RecordEnd(u) : u \in units[p]} :
        \A u \in units[p] : RecordEnd(u) <= e
C15_TerminalOnlyAtClose ==
    /\ wstate \in {"none", "alive"} => TerminalPages = {}
    /\ wstate = "closed" =>
          /\ TerminalPages = {LastPage}
          /\ HeaderPageSize(file[LastPage]) = PublishedEnd(LastPage)
          /\ ActivePages = {}

\* the writer closed after it had rotated: one page '/', the other '-'
C15_Witness ==
    /\ wstate = "closed"
    /\ TerminalPages # {}
    /\ \E p \in Pages : Stamped(p) /\ PageActivity(p) = ActClosed
    /\ Cardinality(units[LastPage]) >= 2

\* C16: framing.  In every page whose header was stamped by a completed
\* writeUnlock or by closing the page, the walk that starts at
\* sizeof(PageHeader) and skips sizeof(UnitHeader) + packingCount * 4 bytes at
\* each UnitHeader visits exactly the UnitHeaders the writer wrote, in order,
\* and lands exactly on the header's watermark.
\* the offsets the walk visits in page pg below the watermark end, and last
\* the offset where it stops
RECURSIVE FrameWalk(_, _, _)
FrameWalk(pg, off, end) ==
    IF off >= end \/ off + sizeof_UnitHeader > LOG_PAGE_SIZE
    THEN << off >>
    ELSE << off >> \o FrameWalk(pg, off + sizeof_UnitHeader
                                      + LOG_UNIT_PACKING * Get16(pg, off), end)
\* no emission is between validPage and writeUnlock on page p
Settled(p) ==
    \/ wstate = "closed"
    \/ ~ w.mBuffer
    \/ w.mPageOffset # p
    \/ \A t \in Threads : pc[t] \in {"idle", "lock"}
C16_Framing ==
    \A p \in Pages :
        (Stamped(p) /\ Settled(p)) =>
            LET walk == FrameWalk(file[p], sizeof_PageHeader, HeaderPageSize(file[p])) IN
            /\ walk[Len(walk)] = HeaderPageSize(file[p])
            /\ { walk[k] : k \in 1 .. (Len(walk) - 1) } = { u[1] : u \in units[p] }

\* C17: when validPage has created a page (first use or rotation), the page's
\* header has code '#', activity '+' and packingCount 0, and the writer's
\* bufferOffset is sizeof(PageHeader).
\* validPage has just created the writer's page: no UnitHeader stored in it yet
JustCreated ==
    /\ wstate = "alive"
    /\ w.mBuffer
    /\ units[w.mPageOffset] = {}
    /\ \E t \in Threads : pc[t] = "unit"
C17_NewPageStamp ==
    JustCreated =>
        /\ Stamped(w.mPageOffset)
        /\ PageActivity(w.mPageOffset) = ActBusy
        /\ PageCount(w.mPageOffset) = 0
        /\ w.mBufferOffset = sizeof_PageHeader

\* C18: whenever writeLock has returned, the page has room for the whole
\* record, bufferOffset + sizeof(UnitHeader) + alignedSize(payloadSize) <=
\* LOG_PAGE_SIZE, for every payloadSize, those larger than an empty page
\* included; and the writer stores no byte outside the mapped page.
C18_RoomForRecord ==
    /\ wstate # "crashed"
    /\ \A t \in Threads :
          pc[t] \in {"fill1", "fill2", "unlock"} =>
             /\ w.mBufferOffset + sizeof_UnitHeader + alignedSize(DeclaredSize(op[t]))
                   <= LOG_PAGE_SIZE
             /\ ptr[t] <= LOG_PAGE_SIZE

\* C19: once the reader has loaded a page, sizeof(PageHeader) <= bufferOffset
\* <= pageSize <= LOG_PAGE_SIZE in every state, so that every record delivered
\* (bufferOffset is its end) lies below the watermark the reader last sampled
\* and the test bufferOffset == pageSize is never stepped over, also when the
\* writer laps the reader.
C19_ReaderWithinWatermark ==
    (rstate = "open" /\ r.mBuffer # NoBuffer) =>
        /\ sizeof_PageHeader <= r.mBufferOffset
        /\ r.mBufferOffset <= r.mPageSize
        /\ r.mPageSize <= LOG_PAGE_SIZE

\* C20: a readOnce call hands at most one record to the callback, and exactly
\* one if and only if it returns Readed; a call that returns Unreaded,
\* ExitProgram or LogNotFound hands over nothing and does not move
\* bufferOffset forward in the page (it is not beyond where it was, or it is
\* sizeof(PageHeader) of a page just mapped).
C20_OneCallbackIffReaded ==
    [][/\ Len(delivered') \in {Len(delivered), Len(delivered) + 1}
       /\ Len(delivered') = Len(delivered) + 1 =>
             /\ Len(results') = Len(results) + 1
             /\ results'[Len(results')].res = "Readed"
       /\ Len(results') = Len(results) + 1 =>
             IF results'[Len(results')].res = "Readed"
             THEN Len(delivered') = Len(delivered) + 1
             ELSE /\ delivered' = delivered
                  /\ IF r'.mBuffer = r.mBuffer
                     THEN r'.mBufferOffset <= r.mBufferOffset
                     ELSE r'.mBufferOffset = sizeof_PageHeader]_vars

\* one reader has had all three answers: a record, then nothing new, then the
\* writer's exit
C20_Witness ==
    /\ Len(results) = 3
    /\ results[1].res = "Readed"
    /\ results[2].res = "Unreaded"
    /\ results[3].res = "ExitProgram"
    /\ Len(delivered) = 1
    /\ delivered[1].done

\* C21: readOnce returns ExitProgram only when every record the writer
\* published before it closed has been handed to the callback: at the first
\* ExitProgram no record of the terminal page or of an earlier page is left
\* undelivered (stated for a ring that has not wrapped).
FirstExit ==
    /\ Len(results) >= 1
    /\ results[Len(results)].res = "ExitProgram"
    /\ \A i \in 1 .. (Len(results) - 1) : results[i].res # "ExitProgram"
Handed(rec) == \E j \in 1 .. Len(delivered) : delivered[j].rec = rec
C21_ExitAfterAllDelivered ==
    (FirstExit /\ ~ Wrapped) =>
        \A p \in Pages : \A u \in units[p] : u[2] <= npub => Handed(u[2])

\* C22: whenever the reader has a page loaded, the page it has mapped and is
\* walking is the page at ring index pageOffset, a failed page advance
\* included; and no record is handed to the callback twice.
C22_ReaderPositionConsistent ==
    /\ (rstate = "open" /\ r.mBuffer # NoBuffer) => r.mBuffer = r.mPageOffset
    /\ \A i, j \in 1 .. Len(delivered) :
          (i < j /\ delivered[i].rec # 0) => delivered[i].rec # delivered[j].rec

\* C23: a reader opened while page 0 carries no '#' still takes page 0 first:
\* the first page it loads is page 0, and the first record it delivers is the
\* first record of page 0, before any record of page 1 (it never moves to
\* page p + 1 without having loaded page p).
C23_StartsAtPageZero ==
    [][/\ (r.mBuffer = NoBuffer /\ r'.mBuffer # NoBuffer) => r'.mBuffer = 0
       /\ (Len(delivered) = 0 /\ Len(delivered') = 1 /\ ~ Wrapped') =>
             /\ delivered'[1].page = 0
             /\ delivered'[1].off = sizeof_PageHeader]_vars

\* ------------------------------------------- the ring-cycle specification
\* The writer wraps the ring; the reader is constructed once the writer has
\* wrapped and is idle, and then follows the writer, which goes on emitting
\* and does not quit.

CycleOpen ==
    /\ Wrapped
    /\ WriterIdle
    /\ ReaderConstruct

InitCycle == mode = "cycle" /\ InitCommon

NextCycle ==
    \/ Emit(1)
    \/ WriterStep(1)
    \/ CycleOpen
    \/ readOnce

SpecCycle == InitCycle /\ [][NextCycle]_vars

\* C24: after the ring has wrapped, a reader that follows the writer is handed
\* only records of the writer's current ring cycle and never a record emitted
\* earlier than one it was handed before; in the interval between the '-'
\* stamp of page p and the '+' stamp of page p + 1 it does not adopt what the
\* previous cycle left in page p + 1.
C24_NoStaleCycle ==
    \A j \in 1 .. Len(delivered) :
        /\ delivered[j].rec # 0
        /\ \A i \in 1 .. (j - 1) : delivered[i].rec < delivered[j].rec

====
